---- MODULE Spec2Model ----
(***************************************************************************)
(* Model of custom_components/auto_areas/auto_area.py: the AutoArea class  *)
(* (deferred initialization, entity membership, presence aggregation) and  *)
(* the module functions get_all_entities, is_valid and get_area_id.        *)
(*                                                                         *)
(* The host (Home Assistant) is the environment: it owns the entity and    *)
(* device registries, the state machine (hass.states), the event bus and   *)
(* the task scheduler.                                                     *)
(***************************************************************************)
EXTENDS Integers, Sequences, FiniteSets, TLC

VARIABLES
    entity_registry,   \* entity id -> RegistryEntry            (host)
    device_registry,   \* device id -> DeviceEntry, partial      (host)
    is_running,        \* hass.is_running                        (host)
    states,            \* hass.states: entity id -> token | None (host)
    task,              \* per area: where its initialize() coroutine is
    entities,          \* per area: self.entities
    presence,          \* per area: self.presence
    presence_indicating_entities, \* per area: the list captured by the closures
    subscribed,        \* per area: async_track_state_change was called
    queue,             \* per area: state-change notifications not yet handled
    last               \* the call of this component that has just returned

vars == << entity_registry, device_registry, is_running, states, task, entities,
           presence, presence_indicating_entities, subscribed, queue, last >>

----------------------------------------------------------------------------
(* Universe of the model *)

\* Pending notifications per area.
MaxQueue == 2

None == "None"
KeyError == "KeyError"
\* previous_state when from_state is absent (line 98).
EmptyToken == ""

Areas == {"kitchen", "living_room"}
EntityIds == {"m1", "m2"}
\* "d1" is a device the registry knows, "d9" one it does not.
DeviceIds == {"d1", "d9"}
Tokens == {"on", "off", "unavailable"}
DeviceClasses == {"motion", "door"}
Domains == {"binary_sensor", "camera"}

\* custom_components/auto_areas/const.py
DOMAINS == {"binary_sensor"}
PRESENCE_BINARY_SENSOR_DEVICE_CLASSES == {"motion"}
PRESENCE_BINARY_SENSOR_STATES == {"on"}

Entry(dis, dom, ar, dev, dc, odc) ==
    [ disabled |-> dis, domain |-> dom, area_id |-> ar, device_id |-> dev,
      device_class |-> dc, original_device_class |-> odc ]

\* (device_class, original_device_class) of the entries considered.
ClassPairs ==
    { <<None, None>>, <<None, "motion">>, <<None, "door">>,
      <<"motion", None>>, <<"door", None>>, <<"door", "motion">> }

RegistryEntry ==
    { Entry(dis, dom, ar, dev, cp[1], cp[2]) :
        dis \in BOOLEAN, dom \in Domains, ar \in Areas \cup {None},
        dev \in DeviceIds \cup {None}, cp \in ClassPairs }

\* The device registries considered: "d1" in the kitchen or without an area;
\* "d9" is never registered.
DeviceRegistries ==
    { [d \in {"d1"} |-> [area_id |-> ar]] : ar \in {"kitchen", None} }

NoCall == [ kind |-> "none" ]

----------------------------------------------------------------------------
(* Module functions, lines 137-190 *)

\* Python truthiness of an optional string attribute.
Truthy(x) == x # None /\ x # EmptyToken

\* Variant: the disabled flag is not looked at.
is_valid_always(entity) == TRUE

is_valid(entity) == ~ entity.disabled

\* Variant: the device's area is preferred to the entity's own.
get_area_id_device_first(entity, devices) ==
    IF entity.device_id # None
    THEN IF entity.device_id \in DOMAIN devices
         THEN devices[entity.device_id].area_id
         ELSE KeyError
    ELSE entity.area_id

\* The area of an entity, None, or KeyError when the subscript
\* device_registry.devices[entity.device_id] has no such key.
get_area_id(entity, devices) ==
    IF entity.area_id # None THEN entity.area_id
    ELSE IF entity.device_id # None
         THEN IF entity.device_id \in DOMAIN devices
              THEN devices[entity.device_id].area_id
              ELSE KeyError
         ELSE None

\* The loop visits every entity; is_valid is tested before get_area_id and
\* the domain last, so get_area_id is evaluated for every enabled entity.
\* Result: whether the call raised KeyError, and the kept entity ids.
get_all_entities(registry, devices, area_id, domains) ==
    LET valid == { e \in DOMAIN registry : is_valid(registry[e]) }
    IN  IF \E e \in valid : get_area_id(registry[e], devices) = KeyError
        THEN [ raised |-> TRUE, entities |-> {} ]
        ELSE [ raised |-> FALSE,
               entities |->
                 { e \in valid : /\ get_area_id(registry[e], devices) = area_id
                                 /\ registry[e].domain \in domains } ]

----------------------------------------------------------------------------
(* Closures of track_presence_sensor_state, lines 64-134 *)

\* Lines 66-71: "device_class or (original_device_class in CLASSES)".
select_presence_indicating(registry, ents) ==
    { e \in ents :
        \/ Truthy(registry[e].device_class)
        \/ registry[e].original_device_class
              \in PRESENCE_BINARY_SENSOR_DEVICE_CLASSES }

\* Variant: any() where the code has all().
all_states_are_off_any(sensors, snapshot) ==
    \E e \in { s \in sensors : snapshot[s] # None } :
        snapshot[e] \notin PRESENCE_BINARY_SENSOR_STATES

\* Variant: without filter(None, ...), an absent state is not "off".
all_states_are_off_unfiltered(sensors, snapshot) ==
    \A e \in sensors :
        snapshot[e] # None /\ snapshot[e] \notin PRESENCE_BINARY_SENSOR_STATES

\* Lines 84-95: states that are None are filtered out.
all_states_are_off(sensors, snapshot) ==
    \A e \in { s \in sensors : snapshot[s] # None } :
        snapshot[e] \notin PRESENCE_BINARY_SENSOR_STATES

\* Line 101, "previous_state is current_state": object identity.  Two
\* different tokens are never identical; two equal tokens are identical
\* only when they are the same object (same).
is_identical(previous_state, current_state, same) ==
    previous_state = current_state /\ same

\* Variant: the new presence is recomputed from the live snapshot alone,
\* whatever to_state says.
handle_from_snapshot(pres, sensors, snapshot, from_state, to_state, same) ==
    IF to_state = None
    THEN [ raised |-> TRUE, presence |-> pres, wrote |-> FALSE ]
    ELSE IF is_identical(IF from_state # None THEN from_state ELSE EmptyToken,
                         to_state, same)
         THEN [ raised |-> FALSE, presence |-> pres, wrote |-> FALSE ]
         ELSE LET active == \E e \in sensors :
                               snapshot[e] \in PRESENCE_BINARY_SENSOR_STATES
              IN  [ raised |-> FALSE, presence |-> active,
                    wrote |-> active # pres ]

\* Variant: an inactive to_state clears presence without the re-check of
\* line 116.
handle_without_recheck(pres, sensors, snapshot, from_state, to_state, same) ==
    IF to_state = None
    THEN [ raised |-> TRUE, presence |-> pres, wrote |-> FALSE ]
    ELSE IF is_identical(IF from_state # None THEN from_state ELSE EmptyToken,
                         to_state, same)
         THEN [ raised |-> FALSE, presence |-> pres, wrote |-> FALSE ]
         ELSE IF to_state \in PRESENCE_BINARY_SENSOR_STATES
              THEN [ raised |-> FALSE, presence |-> TRUE, wrote |-> ~ pres ]
              ELSE [ raised |-> FALSE, presence |-> FALSE, wrote |-> pres ]

\* Variant: a notification without from_state is dropped.
handle_dropping_absent(pres, sensors, snapshot, from_state, to_state, same) ==
    IF to_state = None
    THEN [ raised |-> TRUE, presence |-> pres, wrote |-> FALSE ]
    ELSE IF from_state = None \/ is_identical(from_state, to_state, same)
         THEN [ raised |-> FALSE, presence |-> pres, wrote |-> FALSE ]
         ELSE IF to_state \in PRESENCE_BINARY_SENSOR_STATES
              THEN [ raised |-> FALSE, presence |-> TRUE, wrote |-> ~ pres ]
              ELSE IF all_states_are_off(sensors, snapshot)
                   THEN [ raised |-> FALSE, presence |-> FALSE, wrote |-> pres ]
                   ELSE [ raised |-> FALSE, presence |-> pres, wrote |-> FALSE ]

\* Lines 97-119.  Result: whether the call raised, self.presence after, and
\* whether self.presence was assigned (lines 114 and 119 are guarded by the
\* tests of lines 112 and 117).
handle_presence_state_change(pres, sensors, snapshot, from_state, to_state, same) ==
    IF to_state = None
    THEN [ raised |-> TRUE, presence |-> pres,       \* to_state.state, line 99
           wrote |-> FALSE ]
    ELSE LET previous_state == IF from_state # None THEN from_state ELSE EmptyToken
             current_state == to_state
         IN  IF is_identical(previous_state, current_state, same)
             THEN [ raised |-> FALSE, presence |-> pres, wrote |-> FALSE ]
             ELSE IF current_state \in PRESENCE_BINARY_SENSOR_STATES
                  THEN IF ~ pres
                       THEN [ raised |-> FALSE, presence |-> TRUE, wrote |-> TRUE ]
                       ELSE [ raised |-> FALSE, presence |-> pres, wrote |-> FALSE ]
                  ELSE IF all_states_are_off(sensors, snapshot)
                       THEN IF pres
                            THEN [ raised |-> FALSE, presence |-> FALSE,
                                   wrote |-> TRUE ]
                            ELSE [ raised |-> FALSE, presence |-> pres,
                                   wrote |-> FALSE ]
                       ELSE [ raised |-> FALSE, presence |-> pres, wrote |-> FALSE ]

----------------------------------------------------------------------------
(* Initial states *)

\* The registry contents of the presence specifications: m1 is a motion
\* sensor of the kitchen; m2 is a second kitchen sensor that inherits its
\* area from device d1, a sensor of the living room, or a kitchen entity
\* that is no presence sensor.
KitchenMotion == Entry(FALSE, "binary_sensor", "kitchen", None, "motion", None)
KitchenViaDevice == Entry(FALSE, "binary_sensor", None, "d1", None, "motion")
LivingMotion == Entry(FALSE, "binary_sensor", "living_room", "d1", None, "motion")
KitchenPlain == Entry(FALSE, "binary_sensor", "kitchen", None, None, None)

PresenceRegistries ==
    { [e \in EntityIds |-> IF e = "m1" THEN KitchenMotion ELSE second] :
        second \in { KitchenViaDevice, LivingMotion, KitchenPlain } }

InitArea ==
    /\ task = [a \in Areas |-> "absent"]
    /\ entities = [a \in Areas |-> {}]
    /\ presence = [a \in Areas |-> FALSE]
    /\ presence_indicating_entities = [a \in Areas |-> {}]
    /\ subscribed = [a \in Areas |-> FALSE]
    /\ queue = [a \in Areas |-> << >>]
    /\ last = NoCall

Init ==
    /\ entity_registry \in PresenceRegistries
    /\ device_registry = [d \in {"d1"} |-> [area_id |-> "kitchen"]]
    /\ is_running = FALSE
    /\ states = [e \in EntityIds |-> None]
    /\ InitArea

\* Every registry content over the model's universe, host already running.
InitRegistry ==
    /\ entity_registry \in [EntityIds -> RegistryEntry]
    /\ device_registry \in DeviceRegistries
    /\ is_running = TRUE
    /\ states = [e \in EntityIds |-> None]
    /\ InitArea

----------------------------------------------------------------------------
(* Actions *)

\* AutoArea.__init__, lines 25-38.  With the host running the coroutine is
\* scheduled as a task; otherwise the coroutine object self.initialize() is
\* handed to async_listen_once as the listener.
CreateArea(a) ==
    /\ task[a] = "absent"
    /\ task' = [task EXCEPT ![a] = IF is_running THEN "scheduled" ELSE "listening"]
    /\ presence' = [presence EXCEPT ![a] = FALSE]
    /\ entities' = [entities EXCEPT ![a] = {}]
    /\ last' = NoCall
    /\ UNCHANGED << entity_registry, device_registry, is_running, states,
                    presence_indicating_entities, subscribed, queue >>

\* The host finishes starting and fires EVENT_HOMEASSISTANT_STARTED.  The
\* listener registered at line 36 is a coroutine object, not a callable:
\* a host whose job runner accepts coroutine objects schedules it, any
\* other host cannot call it and the coroutine is never run.
HostStarted ==
    /\ ~ is_running
    /\ is_running' = TRUE
    /\ \E accepts_coroutine \in BOOLEAN :
          task' = [a \in Areas |->
                     IF task[a] = "listening"
                     THEN IF accepts_coroutine THEN "scheduled" ELSE "dropped"
                     ELSE task[a]]
    /\ last' = NoCall
    /\ UNCHANGED << entity_registry, device_registry, states, entities, presence,
                    presence_indicating_entities, subscribed, queue >>

\* Variant: without the early return of lines 73-77, an empty sensor list
\* is subscribed like any other.
initialize_without_early_return(a) ==
    /\ task[a] = "scheduled"
    /\ LET found == get_all_entities(entity_registry, device_registry, a, DOMAINS)
           sensors == select_presence_indicating(entity_registry, found.entities)
       IN  IF found.raised
           THEN /\ task' = [task EXCEPT ![a] = "failed"]
                /\ last' = [ kind |-> "initialize", area |-> a, raised |-> TRUE ]
                /\ UNCHANGED << entities, presence, presence_indicating_entities,
                                subscribed >>
           ELSE /\ task' = [task EXCEPT ![a] = "done"]
                /\ last' = [ kind |-> "initialize", area |-> a, raised |-> FALSE ]
                /\ entities' = [entities EXCEPT ![a] = found.entities]
                /\ presence' = [presence EXCEPT
                      ![a] = ~ all_states_are_off(sensors, states)]
                /\ presence_indicating_entities' =
                      [presence_indicating_entities EXCEPT ![a] = sensors]
                /\ subscribed' = [subscribed EXCEPT ![a] = TRUE]
    /\ UNCHANGED << entity_registry, device_registry, is_running, states, queue >>

\* AutoArea.initialize, lines 40-62, with track_presence_sensor_state,
\* lines 64-134.
initialize(a) ==
    /\ task[a] = "scheduled"
    /\ LET found == get_all_entities(entity_registry, device_registry, a, DOMAINS)
           sensors == select_presence_indicating(entity_registry, found.entities)
       IN  IF found.raised
           THEN /\ task' = [task EXCEPT ![a] = "failed"]
                /\ last' = [ kind |-> "initialize", area |-> a, raised |-> TRUE ]
                /\ UNCHANGED << entities, presence, presence_indicating_entities,
                                subscribed >>
           ELSE /\ task' = [task EXCEPT ![a] = "done"]
                /\ last' = [ kind |-> "initialize", area |-> a, raised |-> FALSE ]
                /\ entities' = [entities EXCEPT ![a] = found.entities]
                /\ IF sensors = {}
                   THEN UNCHANGED << presence, presence_indicating_entities,
                                     subscribed >>
                   ELSE /\ presence' = [presence EXCEPT
                              ![a] = IF all_states_are_off(sensors, states)
                                     THEN FALSE ELSE TRUE]
                        /\ presence_indicating_entities' =
                              [presence_indicating_entities EXCEPT ![a] = sensors]
                        /\ subscribed' = [subscribed EXCEPT ![a] = TRUE]
    /\ UNCHANGED << entity_registry, device_registry, is_running, states, queue >>

\* Variant: the subscription is installed by the constructor, for the
\* entities the registry places in the area.
Subscribers_from_construction(e) ==
    { a \in Areas : /\ task[a] # "absent"
                    /\ get_area_id(entity_registry[e], device_registry) = a }

\* The areas whose subscription covers entity e.
Subscribers(e) ==
    { a \in Areas : subscribed[a] /\ e \in presence_indicating_entities[a] }

\* What the host can write for an entity: a new state, the same state again
\* (an attribute update) or its removal (None); an entity without a state
\* cannot be removed.
Writable(e) ==
    { t \in Tokens \cup {EmptyToken, None} : ~ (t = None /\ states[e] = None) }

\* The host writes a state: the snapshot changes at once and one
\* notification per subscription is queued.
StateChange(e, new_state) ==
    /\ new_state \in Writable(e)
    /\ \A a \in Subscribers(e) : Len(queue[a]) < MaxQueue
    /\ states' = [states EXCEPT ![e] = new_state]
    /\ queue' = [a \in Areas |->
                   IF a \in Subscribers(e)
                   THEN Append(queue[a], [ entity |-> e, from_state |-> states[e],
                                           to_state |-> new_state ])
                   ELSE queue[a]]
    /\ last' = NoCall
    /\ UNCHANGED << entity_registry, device_registry, is_running, task, entities,
                    presence, presence_indicating_entities, subscribed >>

\* Whether previous_state and current_state of a notification may be one
\* object: only equal strings can be, an absent from_state standing for the
\* empty string of line 98.
Identities(from_state, to_state) ==
    IF (IF from_state # None THEN from_state ELSE EmptyToken) = to_state
    THEN BOOLEAN ELSE {FALSE}

\* Variant: presence is one attribute shared by all AutoArea objects.
Deliver_shared_presence(a) ==
    /\ queue[a] # << >>
    /\ LET ev == Head(queue[a])
       IN  \E same \in Identities(ev.from_state, ev.to_state) :
             LET r == handle_presence_state_change(
                          presence[a], presence_indicating_entities[a], states,
                          ev.from_state, ev.to_state, same)
             IN  /\ presence' = [b \in Areas |-> r.presence]
                 /\ last' = [ kind |-> "handle", area |-> a, entity |-> ev.entity,
                              from_state |-> ev.from_state, to_state |-> ev.to_state,
                              before |-> presence[a], raised |-> r.raised,
                              wrote |-> r.wrote ]
    /\ queue' = [queue EXCEPT ![a] = Tail(queue[a])]
    /\ UNCHANGED << entity_registry, device_registry, is_running, states, task,
                    entities, presence_indicating_entities, subscribed >>

\* The oldest notification of area a is handed to its handler.
Deliver(a) ==
    /\ queue[a] # << >>
    /\ LET ev == Head(queue[a])
       IN  \E same \in Identities(ev.from_state, ev.to_state) :
             LET r == handle_presence_state_change(
                          presence[a], presence_indicating_entities[a], states,
                          ev.from_state, ev.to_state, same)
             IN  /\ presence' = [presence EXCEPT ![a] = r.presence]
                 /\ last' = [ kind |-> "handle", area |-> a, entity |-> ev.entity,
                              from_state |-> ev.from_state, to_state |-> ev.to_state,
                              before |-> presence[a], raised |-> r.raised,
                              wrote |-> r.wrote ]
    /\ queue' = [queue EXCEPT ![a] = Tail(queue[a])]
    /\ UNCHANGED << entity_registry, device_registry, is_running, states, task,
                    entities, presence_indicating_entities, subscribed >>

\* The host writes a state and the handler runs before anything else
\* happens: the snapshot shows to_state when the notification is handled.
SyncStateChange(e, new_state) ==
    /\ new_state \in Writable(e)
    /\ states' = [states EXCEPT ![e] = new_state]
    /\ \E same \in Identities(states[e], new_state) :
         LET r(a) == handle_presence_state_change(
                         presence[a], presence_indicating_entities[a], states',
                         states[e], new_state, same)
         IN  /\ presence' = [a \in Areas |->
                               IF a \in Subscribers(e) THEN r(a).presence
                               ELSE presence[a]]
             /\ last' = IF Subscribers(e) = {} THEN NoCall
                        ELSE LET a == CHOOSE x \in Subscribers(e) : TRUE
                             IN  [ kind |-> "handle", area |-> a, entity |-> e,
                                   from_state |-> states[e], to_state |-> new_state,
                                   before |-> presence[a], raised |-> r(a).raised,
                                   wrote |-> r(a).wrote ]
    /\ UNCHANGED << entity_registry, device_registry, is_running, task, entities,
                    presence_indicating_entities, subscribed, queue >>

\* The host's entity registry enables or disables an entity.  Nothing in
\* this component listens for registry updates: self.entities is assigned
\* once, at line 51.
UpdateDisabled(e, disabled) ==
    /\ entity_registry[e].disabled # disabled
    /\ entity_registry' =
          [entity_registry EXCEPT ![e] = [@ EXCEPT !.disabled = disabled]]
    /\ last' = NoCall
    /\ UNCHANGED << device_registry, is_running, states, task, entities, presence,
                    presence_indicating_entities, subscribed, queue >>

----------------------------------------------------------------------------
(* Specifications *)

Next ==
    \/ \E a \in Areas : CreateArea(a)
    \/ HostStarted
    \/ \E a \in Areas : initialize(a)
    \/ \E e \in EntityIds, t \in Tokens \cup {None} : StateChange(e, t)
    \/ \E a \in Areas : Deliver(a)

Spec == Init /\ [][Next]_vars

\* Notifications handled as soon as the state is written.
NextSync ==
    \/ \E a \in Areas : CreateArea(a)
    \/ HostStarted
    \/ \E a \in Areas : initialize(a)
    \/ \E e \in EntityIds, t \in Tokens \cup {None} : SyncStateChange(e, t)

SpecSync == Init /\ [][NextSync]_vars

\* Membership and selection over every registry content.
NextRegistry ==
    \/ \E a \in Areas : CreateArea(a)
    \/ \E a \in Areas : initialize(a)

SpecRegistry == InitRegistry /\ [][NextRegistry]_vars

\* Queued notifications for sensors whose state may be the empty string.
NextEmptyToken ==
    \/ \E a \in Areas : CreateArea(a)
    \/ HostStarted
    \/ \E a \in Areas : initialize(a)
    \/ \E e \in EntityIds, t \in {"on", "off", EmptyToken, None} : StateChange(e, t)
    \/ \E a \in Areas : Deliver(a)

SpecEmptyToken == Init /\ [][NextEmptyToken]_vars

\* Areas initialized while the registry's disabled flags change.
NextRegistryUpdate ==
    \/ \E a \in Areas : CreateArea(a)
    \/ HostStarted
    \/ \E a \in Areas : initialize(a)
    \/ \E e \in EntityIds, disabled \in BOOLEAN : UpdateDisabled(e, disabled)

SpecRegistryUpdate == Init /\ [][NextRegistryUpdate]_vars

----------------------------------------------------------------------------
(* Properties *)

Active == PRESENCE_BINARY_SENSOR_STATES

\* A tracked sensor counts as inactive when it is unreachable or its state
\* is outside the active set.
Inactive(e) == states[e] = None \/ states[e] \notin Active

Handled == last.kind = "handle"
Initialized == last.kind = "initialize"

\* C1 (rising edge): a handler call with presence false and an active
\* to_state that differs from from_state returns with presence true,
\* whatever the snapshot shows.
RisingEdge ==
    ( /\ Handled
      /\ ~ last.before
      /\ last.to_state \in Active
      /\ last.from_state # last.to_state )
    => presence[last.area] = TRUE

\* The call happened while the snapshot shows no tracked sensor active (the
\* changed sensor has already left the active state again).
RisingEdgeWitness ==
    /\ Handled
    /\ ~ last.before
    /\ last.to_state \in Active
    /\ last.from_state # last.to_state
    /\ Cardinality(presence_indicating_entities[last.area]) = 2
    /\ \A e \in presence_indicating_entities[last.area] : Inactive(e)
    /\ presence[last.area]

\* C2 (sticky clear): a handler call with presence true and an inactive
\* to_state keeps presence true when another tracked sensor's snapshot is
\* active, and returns with presence false only when the snapshot of every
\* tracked sensor is inactive.
StickyClear ==
    ( /\ Handled
      /\ last.before
      /\ last.to_state # None
      /\ last.to_state \notin Active )
    => LET sensors == presence_indicating_entities[last.area]
       IN  /\ (\E e \in sensors \ {last.entity} : states[e] \in Active)
                 => presence[last.area]
           /\ ~ presence[last.area] => \A e \in sensors : Inactive(e)

\* One sensor cleared while the other is still active: presence is kept.
StickyClearWitness ==
    /\ Handled
    /\ last.before
    /\ last.from_state \in Active
    /\ last.to_state = "off"
    /\ states[last.entity] = "off"
    /\ \E e \in presence_indicating_entities[last.area] \ {last.entity} :
          states[e] \in Active
    /\ presence[last.area]

\* C3 (idempotent no-op): a handler call whose from_state and to_state hold
\* the same token leaves presence as it was.
IdempotentNoOp ==
    (Handled /\ last.from_state = last.to_state)
    => presence[last.area] = last.before

\* C4 (initial presence): when initialize returns, presence is false iff
\* every reachable presence sensor's state is outside the active set.
InitialPresence ==
    (Initialized /\ ~ last.raised)
    => LET S == select_presence_indicating(entity_registry, entities[last.area])
       IN  (presence[last.area] = FALSE) <=> (\A e \in S : Inactive(e))

\* Two sensors, one of them unreachable and the other active.
InitialPresenceWitness ==
    /\ Initialized
    /\ ~ last.raised
    /\ Cardinality(presence_indicating_entities[last.area]) = 2
    /\ \E e \in presence_indicating_entities[last.area] : states[e] = None
    /\ \E e \in presence_indicating_entities[last.area] : states[e] \in Active
    /\ presence[last.area]

\* C5 (presence tracks the sensors): with every notification handled as
\* the state is written, presence of an initialized area is true iff some
\* tracked sensor's most recent state is active.
PresenceTracksSensors ==
    \A a \in Areas :
        task[a] = "done"
        => (presence[a] <=> \E e \in presence_indicating_entities[a] :
                               states[e] \in Active)

\* The membership the specification gives: not disabled, accepted domain,
\* and the area given directly or, without one, by the registered device.
IsMember(e, a) ==
    LET entity == entity_registry[e]
    IN  /\ ~ entity.disabled
        /\ entity.domain \in DOMAINS
        /\ \/ entity.area_id = a
           \/ /\ entity.area_id = None
              /\ entity.device_id \in DOMAIN device_registry
              /\ device_registry[entity.device_id].area_id = a

\* C6 (membership resolution): for every registry content and target area,
\* get_all_entities returns exactly the member entities.
MembershipResolution ==
    Initialized
    => /\ ~ last.raised
       /\ entities[last.area] = { e \in EntityIds : IsMember(e, last.area) }

\* An entity without explicit area whose device is not registered.
MissingDevice(e) ==
    /\ entity_registry[e].area_id = None
    /\ entity_registry[e].device_id # None
    /\ entity_registry[e].device_id \notin DOMAIN device_registry

\* C7 (missing device is not an error): with an entity whose device is not
\* in the device registry, resolution completes normally and leaves that
\* entity out.
MissingDeviceIsNoError ==
    (Initialized /\ \E e \in EntityIds : MissingDevice(e))
    => /\ ~ last.raised
       /\ task[last.area] = "done"
       /\ \A e \in EntityIds : MissingDevice(e) => e \notin entities[last.area]

\* C8 (no failure in aggregation): every notification, also one whose old
\* or new state is absent, is handled without raising; and once nothing is
\* pending, an area whose sensors are all unreachable or inactive has
\* presence false.
NoFailureInAggregation ==
    Handled
    => /\ ~ last.raised
       /\ ( /\ queue[last.area] = << >>
            /\ \A e \in presence_indicating_entities[last.area] : Inactive(e) )
          => ~ presence[last.area]

EffectiveClass(e) ==
    IF entity_registry[e].device_class # None
    THEN entity_registry[e].device_class
    ELSE entity_registry[e].original_device_class

\* C10 (presence-sensor selection): the tracked sensors of an initialized
\* area are exactly its entities whose effective device class is in the
\* allow-list.
PresenceSensorSelection ==
    \A a \in Areas :
        task[a] = "done"
        => presence_indicating_entities[a] =
              { e \in entities[a] :
                  EffectiveClass(e) \in PRESENCE_BINARY_SENSOR_DEVICE_CLASSES }

\* The selection lines 66-71 make for area a from the registries is empty.
EmptySelection(a) ==
    select_presence_indicating(
        entity_registry,
        get_all_entities(entity_registry, device_registry, a, DOMAINS).entities) = {}

\* C11 (empty set): an area whose presence-sensor selection is empty has
\* presence false, no subscription and no notification to handle, in every
\* reachable state.
EmptySet ==
    \A a \in Areas :
        EmptySelection(a)
        => /\ ~ presence[a]
           /\ ~ subscribed[a]
           /\ queue[a] = << >>
           /\ \A e \in EntityIds : a \notin Subscribers(e)

\* The living room is initialized without a sensor while the kitchen's
\* sensors are active and the kitchen reports presence.
EmptySetWitness ==
    /\ task["living_room"] = "done"
    /\ EmptySelection("living_room")
    /\ ~ presence["living_room"]
    /\ presence["kitchen"]
    /\ \A e \in EntityIds : states[e] \in Active

\* The entities an area holds: its entity set and its subscribed sensors.
Tracked(a) == entities[a] \cup presence_indicating_entities[a]

\* C12 as stated (disabled entities are never tracked): in every reachable
\* state, also after a disabled flag changed, no disabled entity is in an
\* area's entity set or subscribed sensor set.
DisabledNeverTracked ==
    \A a \in Areas : \A e \in Tracked(a) : ~ entity_registry[e].disabled

\* C12 as amended: when initialize returns, no entity that the registry
\* shows as disabled is in the area's entity set or subscribed sensor set.
DisabledExcludedAtResolution ==
    (Initialized /\ ~ last.raised)
    => \A e \in Tracked(last.area) : ~ entity_registry[e].disabled

\* The kitchen is resolved while one of its two entities is disabled.
DisabledExcludedWitness ==
    /\ Initialized
    /\ ~ last.raised
    /\ last.area = "kitchen"
    /\ \E e \in EntityIds :
          /\ entity_registry[e].disabled
          /\ entity_registry[e].area_id = "kitchen"
          /\ e \notin Tracked("kitchen")
    /\ Tracked("kitchen") # {}

\* C13 (initialization before subscription): a subscription, a pending
\* notification or a handler call exists only for an area whose
\* initialization has completed, with the sensor set fully populated from
\* its resolved entities; and when initialize returns no notification of
\* the area is pending or has been handled, so the initial presence
\* overwrites nothing a handler wrote.
InitializationBeforeSubscription ==
    /\ \A a \in Areas :
          (subscribed[a] \/ queue[a] # << >> \/ \E e \in EntityIds : a \in Subscribers(e))
          => /\ task[a] = "done"
             /\ subscribed[a]
             /\ presence_indicating_entities[a] # {}
             /\ presence_indicating_entities[a] =
                   select_presence_indicating(entity_registry, entities[a])
    /\ Handled => task[last.area] = "done" /\ subscribed[last.area]
    /\ Initialized => queue[last.area] = << >>

\* initialize has just returned for an area with two sensors whose states
\* were written before: it derived presence from them, subscribed, and no
\* notification is pending.
InitializationBeforeSubscriptionWitness ==
    /\ Initialized
    /\ ~ last.raised
    /\ subscribed[last.area]
    /\ Cardinality(presence_indicating_entities[last.area]) = 2
    /\ \A e \in presence_indicating_entities[last.area] : states[e] \in Active
    /\ presence[last.area]
    /\ queue[last.area] = << >>

\* C14 (area independence and frame): a handler call of area A changes at
\* most A's presence; A's entity set and sensor set, and the presence,
\* entity set, sensor set and pending notifications of every other area
\* stay as they were.
AreaIndependence ==
    [][ last'.kind = "handle"
        => /\ entities' = entities
           /\ presence_indicating_entities' = presence_indicating_entities
           /\ subscribed' = subscribed
           /\ \A b \in Areas \ {last'.area} :
                 presence'[b] = presence[b] /\ queue'[b] = queue[b] ]_vars

\* A handler call of the kitchen changed its presence while the living
\* room, which tracks a sensor of its own, holds the other value.
AreaIndependenceWitness ==
    /\ Handled
    /\ last.area = "kitchen"
    /\ presence["kitchen"] # last.before
    /\ subscribed["living_room"]
    /\ presence["living_room"] # presence["kitchen"]

\* The area the specification resolves for an entity: its own, else its
\* registered device's, else none.
ResolvedArea(e) ==
    LET entity == entity_registry[e]
    IN  IF entity.area_id # None THEN entity.area_id
        ELSE IF entity.device_id \in DOMAIN device_registry
             THEN device_registry[entity.device_id].area_id
             ELSE None

\* C15 (unique membership): for every registry content an entity is in the
\* entity set of at most one area, that area is the one its explicit area or
\* else its device gives, and an entity resolving to no area is in no set.
UniqueMembership ==
    \A e \in EntityIds :
        /\ \A a, b \in Areas : (e \in entities[a] /\ e \in entities[b]) => a = b
        /\ \A a \in Areas : e \in entities[a] => ResolvedArea(e) = a
        /\ ResolvedArea(e) = None => \A a \in Areas : e \notin entities[a]

\* Both areas are resolved and hold one entity each, the kitchen's by way of
\* device d1 for an entity without an area of its own;
\* the living room's entity names the same device but has its own area.
UniqueMembershipWitness ==
    /\ \A a \in Areas : task[a] = "done"
    /\ \E e \in entities["kitchen"] :
          /\ entity_registry[e].area_id = None
          /\ entity_registry[e].device_id = "d1"
    /\ \E e \in entities["living_room"] : entity_registry[e].device_id = "d1"

\* C16 (eventual consistency under queued delivery): whenever an initialized
\* area has no notification left to handle, its presence is true iff the
\* snapshot of at least one tracked sensor is active.
EventualConsistency ==
    \A a \in Areas :
        (task[a] = "done" /\ queue[a] = << >>)
        => (presence[a] <=> \E e \in presence_indicating_entities[a] :
                               states[e] \in Active)

\* C17 (transition attribution): the presence of an initialized area
\* changes only in a handler call of that area; to true only when the call's
\* to_state is active, to false only when its to_state is inactive and every
\* tracked sensor's snapshot is unreachable or inactive; and a call that
\* assigns presence changes it.
TransitionAttribution ==
    [][ /\ \A a \in Areas :
              (task[a] = "done" /\ presence'[a] # presence[a])
              => /\ last'.kind = "handle"
                 /\ last'.area = a
                 /\ last'.wrote
                 /\ last'.to_state # None
                 /\ presence'[a] => last'.to_state \in Active
                 /\ ~ presence'[a]
                       => /\ last'.to_state \notin Active
                          /\ \A e \in presence_indicating_entities[a] :
                                states'[e] = None \/ states'[e] \notin Active
        /\ (last'.kind = "handle" /\ last'.wrote)
              => presence'[last'.area] # presence[last'.area] ]_vars

\* Presence of an area with two sensors was cleared by the call for a
\* sensor going from active to off.
TransitionAttributionWitness ==
    /\ Handled
    /\ last.wrote
    /\ last.before
    /\ ~ presence[last.area]
    /\ last.from_state \in Active
    /\ last.to_state = "off"
    /\ Cardinality(presence_indicating_entities[last.area]) = 2

\* The update rule was applied by the call that has just returned: an active
\* to_state leaves presence true, an inactive one leaves it false when the
\* re-check finds every tracked sensor unreachable or inactive and as it was
\* otherwise.
UpdateRuleApplied ==
    /\ ~ last.raised
    /\ last.to_state \in Active => presence[last.area]
    /\ last.to_state \notin Active
          => (presence[last.area] <=>
                 ( /\ last.before
                   /\ \E e \in presence_indicating_entities[last.area] :
                         ~ Inactive(e) ))

\* C18 as stated (absent previous state): a notification without from_state
\* is processed by the update rule, never dropped.
AbsentPreviousState ==
    (Handled /\ last.from_state = None /\ last.to_state # None)
    => UpdateRuleApplied

\* C18 as amended: a notification without from_state whose to_state is not
\* the empty string is processed by the update rule.
AbsentPreviousStateNonEmpty ==
    ( /\ Handled
      /\ last.from_state = None
      /\ last.to_state # None
      /\ last.to_state # EmptyToken )
    => UpdateRuleApplied

\* The first state a sensor ever reported is "off", and the re-check it
\* triggered cleared presence.
AbsentPreviousStateWitness ==
    /\ Handled
    /\ last.from_state = None
    /\ last.to_state = "off"
    /\ last.before
    /\ last.wrote
    /\ ~ presence[last.area]

====
